---------------------------- MODULE Spec2Model ----------------------------
(***************************************************************************)
(* Model of stats-microservice/app.py: the chi-square family request       *)
(* handler (handle_test_request), its four computors, the helpers          *)
(* get_interpretation, safe_float_conversion, calculate_cramers_v and the  *)
(* NaNEncoder.                                                             *)
(*                                                                         *)
(* Numbers.  A Python float is modelled as an IEEE value: NaN, +Infinity,  *)
(* -Infinity, or a finite value held as an exact fraction n/d in lowest    *)
(* terms (a zero carries its sign in d: 0/1 is +0.0, 0/-1 is -0.0).        *)
(* Rounding of binary64 arithmetic is not modelled; the special values and *)
(* the division-by-zero rules of numpy are.                                *)
(*                                                                         *)
(* Python values that reach the encoder are tagged records (PyNone, PyStr, *)
(* PyInt, PyFloat, PyBool, PyList, PyDict).  A dict is the ordered         *)
(* sequence of its <<key, value>> items.  A formatted string is the        *)
(* sequence of its fragments.                                              *)
(*                                                                         *)
(* Libraries.  stats.chisquare, stats.chi2_contingency and                 *)
(* stats.fisher_exact are modelled by what they compute and by the         *)
(* ValueErrors they raise; chi2.sf is read off a table of critical values. *)
(* math.sqrt is computed to 1/SqrtScale, rounded down.                     *)
(*                                                                         *)
(* Requests.  The body is a mapping of fields.  observed is a list of      *)
(* integers (1-D) or a list of rows of equal length (2-D), with cells that *)
(* may be negative or zero; labels are lists of strings and may be missing *)
(* or short; a percentage is a number, NaN included.  A step binds a value *)
(* to a name with Bind, as an assignment does.                             *)
(***************************************************************************)
EXTENDS Integers, Sequences, FiniteSets, TLC

VARIABLES
    pc,        \* position of the process: "idle" | "received" | "responded" (Spec),
               \* "start" | "encoded" | "decoded" (SpecEncoder), "start" | "returned"
               \* (SpecCramers), "start" | "interpreted" | "assembled" (SpecInterp)
    data,      \* request.get_json(): the mapping of fields of the request being handled
    result,    \* what the dispatched computor returned or raised (NoOutcome before)
    response,  \* [status, body] returned by handle_test_request
    calls,     \* the computors invoked while handling the request
    args,      \* arguments of the helper called (SpecEncoder, SpecCramers, SpecInterp)
    ret,       \* value the helper returned
    wire       \* response_json: the chunks emitted by NaNEncoder

vars == <<pc, data, result, response, calls, args, ret, wire>>

---------------------------------------------------------------------------
(* Bounds of the model *)

\* largest cell count of an observed table or sequence
MaxCount == 6
\* longest 1-D observed sequence (goodness-of-fit categories)
MaxCats == 2
\* most rows of a 2-D observed table
MaxRows == 2
\* math.sqrt is computed to 1/SqrtScale, rounded down
SqrtScale == 100
\* longest list drawn for the encoder
MaxLen == 2
\* largest table dimension drawn for calculate_cramers_v
MaxShape == 3

---------------------------------------------------------------------------
(* IEEE floats as exact fractions *)

Abs(i) == IF i < 0 THEN -i ELSE i

\* the sequences over S of length at most n
SeqsUpTo(S, n) == UNION {[1..k -> S] : k \in 0..n}

\* name = value; rest  (an assignment followed by the statements after it)
Bind(value, rest(_)) == rest(value)

RECURSIVE GCD(_, _)
GCD(a, b) == IF b = 0 THEN a ELSE GCD(b, a % b)

NaN  == [k |-> "nan", n |-> 0, d |-> 1]
PInf == [k |-> "inf", n |-> 1, d |-> 1]
NInf == [k |-> "inf", n |-> -1, d |-> 1]
PZero == [k |-> "fin", n |-> 0, d |-> 1]
NZero == [k |-> "fin", n |-> 0, d |-> -1]

\* the finite value n/d (d # 0), in lowest terms; a zero result is +0.0
Fin(n, d) ==
    IF n = 0 THEN PZero
    ELSE LET g == GCD(Abs(n), Abs(d))
             s == IF d < 0 THEN -1 ELSE 1
         IN [k |-> "fin", n |-> (s * n) \div g, d |-> Abs(d) \div g]

IsNaN(x) == x.k = "nan"
IsInf(x) == x.k = "inf"
IsFin(x) == x.k = "fin"
IsZero(x) == x.k = "fin" /\ x.n = 0
\* sign bit as +1 / -1 (of a NaN: +1)
Sgn(x) == IF x.n > 0 THEN 1 ELSE IF x.n < 0 THEN -1 ELSE x.d
SignedZero(s) == IF s < 0 THEN NZero ELSE PZero
SignedInf(s) == IF s < 0 THEN NInf ELSE PInf

Neg(x) ==
    IF IsNaN(x) THEN NaN
    ELSE IF IsInf(x) THEN SignedInf(-x.n)
    ELSE IF x.n = 0 THEN SignedZero(-x.d)
    ELSE [k |-> "fin", n |-> -x.n, d |-> x.d]

Add(x, y) ==
    IF IsNaN(x) \/ IsNaN(y) THEN NaN
    ELSE IF IsInf(x) /\ IsInf(y) THEN (IF x.n = y.n THEN x ELSE NaN)
    ELSE IF IsInf(x) THEN x
    ELSE IF IsInf(y) THEN y
    ELSE IF x.n = 0 /\ y.n = 0 THEN (IF x.d < 0 /\ y.d < 0 THEN NZero ELSE PZero)
    ELSE IF x.n = 0 THEN y
    ELSE IF y.n = 0 THEN x
    ELSE Fin(x.n * y.d + y.n * x.d, x.d * y.d)

Sub(x, y) == Add(x, Neg(y))

Mul(x, y) ==
    IF IsNaN(x) \/ IsNaN(y) THEN NaN
    ELSE IF (IsInf(x) /\ IsZero(y)) \/ (IsZero(x) /\ IsInf(y)) THEN NaN
    ELSE IF IsInf(x) \/ IsInf(y) THEN SignedInf(Sgn(x) * Sgn(y))
    ELSE IF x.n = 0 \/ y.n = 0 THEN SignedZero(Sgn(x) * Sgn(y))
    ELSE Fin(x.n * y.n, x.d * y.d)

\* numpy division: x/0 is +-inf, 0/0 and inf/inf are nan, nothing raises
Div(x, y) ==
    IF IsNaN(x) \/ IsNaN(y) THEN NaN
    ELSE IF IsInf(x) /\ IsInf(y) THEN NaN
    ELSE IF IsInf(x) THEN SignedInf(Sgn(x) * Sgn(y))
    ELSE IF IsInf(y) THEN SignedZero(Sgn(x) * Sgn(y))
    ELSE IF y.n = 0 THEN (IF x.n = 0 THEN NaN ELSE SignedInf(Sgn(x) * Sgn(y)))
    ELSE IF x.n = 0 THEN SignedZero(Sgn(x) * Sgn(y))
    ELSE Fin(x.n * y.d, x.d * y.n)

\* x < y; every comparison with a NaN is False
Lt(x, y) ==
    IF IsNaN(x) \/ IsNaN(y) THEN FALSE
    ELSE IF IsInf(x) THEN x.n < 0 /\ ~(IsInf(y) /\ y.n < 0)
    ELSE IF IsInf(y) THEN y.n > 0
    ELSE x.n * Abs(y.d) < y.n * Abs(x.d)

\* x == y as numbers: NaN equals nothing, +0.0 equals -0.0
NumEq(x, y) ==
    IF IsNaN(x) \/ IsNaN(y) THEN FALSE
    ELSE IF IsInf(x) \/ IsInf(y) THEN x = y
    ELSE x.n = y.n /\ (x.n = 0 \/ x.d = y.d)

FAbs(x) == IF Sgn(x) < 0 THEN Neg(x) ELSE x

\* np.minimum: a NaN operand gives NaN
FMin(x, y) == IF IsNaN(x) \/ IsNaN(y) THEN NaN ELSE IF Lt(y, x) THEN y ELSE x

FromInt(i) == Fin(i, 1)

RECURSIVE SumSeq(_)
\* np.sum over a 1-D array (0.0 for an empty one)
SumSeq(s) == IF s = <<>> THEN PZero ELSE Add(SumSeq(SubSeq(s, 1, Len(s) - 1)), s[Len(s)])

RECURSIVE ISqrtBetween(_, _, _)
\* the largest r of lo..hi with r * r <= m, by bisection
ISqrtBetween(m, lo, hi) ==
    IF lo = hi THEN lo
    ELSE IF ((lo + hi + 1) \div 2) * ((lo + hi + 1) \div 2) <= m
    THEN ISqrtBetween(m, (lo + hi + 1) \div 2, hi)
    ELSE ISqrtBetween(m, lo, ((lo + hi + 1) \div 2) - 1)

\* math.sqrt for x >= 0 (NaN and +inf pass through), to 1/SqrtScale
Sqrt(x) ==
    IF ~IsFin(x) THEN x
    ELSE IF x.n = 0 THEN x
    ELSE Fin(ISqrtBetween((x.n * SqrtScale * SqrtScale) \div x.d, 0, SqrtScale + (x.n * SqrtScale) \div x.d), SqrtScale)

---------------------------------------------------------------------------
(* Python values *)

PyNone == [t |-> "none", v |-> <<>>]
PyBool(b) == [t |-> "bool", v |-> b]
PyInt(i) == [t |-> "int", v |-> i]
PyFloat(x) == [t |-> "float", v |-> x]
\* a str, as the sequence of its fragments
PyStr(fragments) == [t |-> "str", v |-> fragments]
PyList(items) == [t |-> "list", v |-> items]
\* a dict, as the sequence of its <<key, value>> items in insertion order
PyDict(items) == [t |-> "dict", v |-> items]

\* isinstance(v, float) and (math.isnan(v) or math.isinf(v))
IsNonFiniteFloat(v) == v.t = "float" /\ ~IsFin(v.v)

\* d[key] of a dict value (PyNone when the key is missing)
RECURSIVE ItemOf(_, _)
ItemOf(items, key) ==
    IF items = <<>> THEN PyNone
    ELSE IF items[1][1] = key THEN items[1][2]
    ELSE ItemOf(Tail(items), key)

Field(d, key) == ItemOf(d.v, key)

HasKey(d, key) == \E i \in 1..Len(d.v) : d.v[i][1] = key

---------------------------------------------------------------------------
(* json.dumps of a scalar, NaNEncoder, json.loads *)

Tok(kind, payload) == [t |-> kind, v |-> payload]

\* json.dumps(obj) for a scalar obj: one chunk of text.  The stock encoder
\* writes a non-finite float as the literal NaN, Infinity or -Infinity.
json_dumps(obj) ==
    CASE obj.t = "none" -> Tok("null", <<>>)
      [] obj.t = "bool" -> Tok(IF obj.v THEN "true" ELSE "false", <<>>)
      [] obj.t = "int" -> Tok("int", obj.v)
      [] obj.t = "str" -> Tok("string", obj.v)
      [] obj.t = "float" ->
            IF IsNaN(obj.v) THEN Tok("NaN", <<>>)
            ELSE IF IsInf(obj.v) THEN Tok(IF obj.v.n > 0 THEN "Infinity" ELSE "-Infinity", <<>>)
            ELSE Tok("float", obj.v)

RECURSIVE iterencode(_)
RECURSIVE iterencode_items(_, _)
RECURSIVE iterencode_values(_, _)

\* the variant of the loop over obj.items() that hands every scalar value to
\* json.dumps without looking at it
iterencode_items_stock(items, i) ==
    IF i > Len(items) THEN <<>>
    ELSE (IF i > 1 THEN <<Tok(", ", <<>>)>> ELSE <<>>)
         \o <<Tok("string", <<items[i][1]>>), Tok(": ", <<>>)>>
         \o (IF items[i][2].t \in {"dict", "list"} THEN iterencode(items[i][2])
             ELSE <<json_dumps(items[i][2])>>)
         \o iterencode_items(items, i + 1)

\* the body of the loop over obj.items(), from the i-th item on
iterencode_items(items, i) ==
    IF i > Len(items) THEN <<>>
    ELSE (IF i > 1 THEN <<Tok(", ", <<>>)>> ELSE <<>>)
         \o <<Tok("string", <<items[i][1]>>), Tok(": ", <<>>)>>
         \o (IF IsNonFiniteFloat(items[i][2]) THEN <<Tok("null", <<>>)>>
             ELSE iterencode(items[i][2]))
         \o iterencode_items(items, i + 1)

\* the variant of the loop over a list that hands every scalar value to
\* json.dumps without looking at it
iterencode_values_stock(items, i) ==
    IF i > Len(items) THEN <<>>
    ELSE (IF i > 1 THEN <<Tok(", ", <<>>)>> ELSE <<>>)
         \o (IF items[i].t \in {"dict", "list"} THEN iterencode(items[i])
             ELSE <<json_dumps(items[i])>>)
         \o iterencode_values(items, i + 1)

\* the body of the loop over the values of a list, from the i-th on
iterencode_values(items, i) ==
    IF i > Len(items) THEN <<>>
    ELSE (IF i > 1 THEN <<Tok(", ", <<>>)>> ELSE <<>>)
         \o (IF IsNonFiniteFloat(items[i]) THEN <<Tok("null", <<>>)>>
             ELSE iterencode(items[i]))
         \o iterencode_values(items, i + 1)

\* NaNEncoder.iterencode: the chunks yielded for obj
iterencode(obj) ==
    IF obj.t = "dict" THEN <<Tok("{", <<>>)>> \o iterencode_items(obj.v, 1) \o <<Tok("}", <<>>)>>
    ELSE IF obj.t = "list" THEN <<Tok("[", <<>>)>> \o iterencode_values(obj.v, 1) \o <<Tok("]", <<>>)>>
    ELSE IF IsNonFiniteFloat(obj) THEN <<Tok("null", <<>>)>>
    ELSE <<json_dumps(obj)>>

\* NaNEncoder.encode, which json.dumps(obj, cls=NaNEncoder) calls; the base
\* class joins the chunks of iterencode
NaNEncoder_encode(obj) ==
    IF IsNonFiniteFloat(obj) THEN <<Tok("null", <<>>)>>
    ELSE iterencode(obj)

\* dict[key] = val while decoding an object (a repeated key keeps its place)
RECURSIVE DictPut(_, _, _)
DictPut(items, key, val) ==
    IF items = <<>> THEN <<<<key, val>>>>
    ELSE IF items[1][1] = key THEN <<<<key, val>>>> \o Tail(items)
    ELSE <<items[1]>> \o DictPut(Tail(items), key, val)

RECURSIVE ParseValue(_, _)
RECURSIVE ParseMembers(_, _, _)
RECURSIVE ParseElements(_, _, _)

\* json.loads, on the chunks of the text: the value starting at chunk i and
\* the index of the chunk after it
ParseValue(w, i) ==
    LET tk == w[i] IN
    CASE tk.t = "{" ->
            IF w[i + 1].t = "}" THEN [val |-> PyDict(<<>>), nxt |-> i + 2]
            ELSE ParseMembers(w, i + 1, <<>>)
      [] tk.t = "[" ->
            IF w[i + 1].t = "]" THEN [val |-> PyList(<<>>), nxt |-> i + 2]
            ELSE ParseElements(w, i + 1, <<>>)
      [] tk.t = "null" -> [val |-> PyNone, nxt |-> i + 1]
      [] tk.t = "true" -> [val |-> PyBool(TRUE), nxt |-> i + 1]
      [] tk.t = "false" -> [val |-> PyBool(FALSE), nxt |-> i + 1]
      [] tk.t = "int" -> [val |-> PyInt(tk.v), nxt |-> i + 1]
      [] tk.t = "float" -> [val |-> PyFloat(tk.v), nxt |-> i + 1]
      [] tk.t = "string" -> [val |-> PyStr(tk.v), nxt |-> i + 1]
      [] tk.t = "NaN" -> [val |-> PyFloat(NaN), nxt |-> i + 1]
      [] tk.t = "Infinity" -> [val |-> PyFloat(PInf), nxt |-> i + 1]
      [] tk.t = "-Infinity" -> [val |-> PyFloat(NInf), nxt |-> i + 1]

\* members of an object from chunk i (a key) on; acc holds those read
ParseMembers(w, i, acc) ==
    LET key == w[i].v[1]
        m == ParseValue(w, i + 2)
        got == DictPut(acc, key, m.val)
    IN IF w[m.nxt].t = ", " THEN ParseMembers(w, m.nxt + 1, got)
       ELSE [val |-> PyDict(got), nxt |-> m.nxt + 1]

\* elements of an array from chunk i on; acc holds those read
ParseElements(w, i, acc) ==
    LET m == ParseValue(w, i)
        got == Append(acc, m.val)
    IN IF w[m.nxt].t = ", " THEN ParseElements(w, m.nxt + 1, got)
       ELSE [val |-> PyList(got), nxt |-> m.nxt + 1]

json_loads(w) == ParseValue(w, 1).val

---------------------------------------------------------------------------
(* Outcome of a call: a returned value or a raised exception *)

Ok(v) == [kind |-> "return", value |-> v, msg |-> ""]
Raise(exc, m) == [kind |-> exc, value |-> PyNone, msg |-> m]
Returned(o) == o.kind = "return"

---------------------------------------------------------------------------
(* Helper functions of app.py *)

SigTemplate == "The result is statistically significant (p < 0.05). Therefore, we reject the null hypothesis. "
NotSigTemplate == "The result is not statistically significant (p >= 0.05). Therefore, we fail to reject the null hypothesis. "

\* the threshold 0.05 of get_interpretation
Alpha == Fin(5, 100)

\* the variant of get_interpretation that also takes p = 0.05 as significant
get_interpretation_inclusive(p_value, subtype, positive_conclusion, negative_conclusion, test_notes) ==
    IF Lt(p_value, Alpha) \/ NumEq(p_value, Alpha)
    THEN PyStr(<<SigTemplate>> \o positive_conclusion \o <<" ", test_notes>>)
    ELSE PyStr(<<NotSigTemplate>> \o negative_conclusion \o <<" ", test_notes>>)

get_interpretation(p_value, subtype, positive_conclusion, negative_conclusion, test_notes) ==
    IF Lt(p_value, Alpha)
    THEN PyStr(<<SigTemplate>> \o positive_conclusion \o <<" ", test_notes>>)
    ELSE PyStr(<<NotSigTemplate>> \o negative_conclusion \o <<" ", test_notes>>)

safe_float_conversion(value) ==
    IF value.t = "float" THEN (IF IsNaN(value.v) \/ IsInf(value.v) THEN PyNone ELSE value)
    ELSE IF value.t = "int" THEN PyFloat(FromInt(value.v))
    ELSE value

\* the variant of calculate_cramers_v that does not divide by min_dim
calculate_cramers_v_no_min_dim(chi2, n, shape) ==
    LET min_dim == IF shape[1] < shape[2] THEN shape[1] - 1 ELSE shape[2] - 1 IN
    IF chi2 = PyNone \/ NumEq(n, PZero) THEN Ok(PyNone)
    ELSE IF min_dim = 0 THEN Ok(PyFloat(PZero))
    ELSE LET q == Div(chi2.v, n) IN
         IF Lt(q, PZero) THEN Raise("ValueError", "math domain error")
         ELSE Ok(PyFloat(Sqrt(q)))

\* calculate_cramers_v(chi2, n, table), with shape = table.shape; math.sqrt
\* raises ValueError on a negative argument
calculate_cramers_v(chi2, n, shape) ==
    IF chi2 = PyNone \/ NumEq(n, PZero) THEN Ok(PyNone)
    ELSE LET rows == shape[1]
             cols == shape[2]
             phi2 == Div(chi2.v, n)
             min_dim == IF rows - 1 < cols - 1 THEN rows - 1 ELSE cols - 1
         IN IF min_dim = 0 THEN Ok(PyFloat(PZero))
            ELSE LET q == Div(phi2, FromInt(min_dim)) IN
                 IF Lt(q, PZero) THEN Raise("ValueError", "math domain error")
                 ELSE Ok(PyFloat(Sqrt(q)))

---------------------------------------------------------------------------
(* The scipy.stats procedures the computors call *)

\* upper-tail critical values of the chi-square distribution, times 1000,
\* at the levels 0.5, 0.1, 0.05, 0.01, 0.001, for 1 to 6 degrees of freedom
Chi2Critical ==
    <<  <<455, 2706, 3841, 6635, 10828>>,
        <<1386, 4605, 5991, 9210, 13816>>,
        <<2366, 6251, 7815, 11345, 16266>>,
        <<3357, 7779, 9488, 13277, 18467>>,
        <<4351, 9236, 11070, 15086, 20515>>,
        <<5348, 10645, 12592, 16812, 22458>> >>

\* a value inside each interval between two tabulated levels
Chi2Levels == <<Fin(3, 4), Fin(3, 10), Fin(7, 100), Fin(3, 100), Fin(5, 1000), Fin(1, 2000)>>

\* stats.chi2.sf(x, df): nan for df <= 0 or x nan, 1.0 for x <= 0, 0.0 for
\* +inf; elsewhere the survival function is read off the table, the value
\* returned lying in the same interval between tabulated levels as the true one
Chi2Sf(x, df) ==
    IF df <= 0 \/ IsNaN(x) THEN NaN
    ELSE IF IsInf(x) THEN (IF x.n > 0 THEN PZero ELSE FromInt(1))
    ELSE IF x.n <= 0 THEN FromInt(1)
    ELSE LET row == Chi2Critical[IF df > 6 THEN 6 ELSE df]
             reached == {j \in 1..5 : x.n * 1000 >= row[j] * x.d}
         IN Chi2Levels[Cardinality(reached) + 1]

\* relative_diff > rtol, with rtol = 1e-8
DiffGtTol(relative_diff) ==
    \/ relative_diff = PInf
    \/ /\ IsFin(relative_diff)
       /\ relative_diff.n > 0
       /\ (relative_diff.d < 100000000 \/ relative_diff.n * 100000000 > relative_diff.d)

\* sum((o - e)^2 / e) over a 1-D array
PearsonSum(o, e) == SumSeq([i \in 1..Len(o) |-> Div(Mul(Sub(o[i], e[i]), Sub(o[i], e[i])), e[i])])

\* np.broadcast_to of a 1-D array to length b
BroadcastTo(a, b) == [i \in 1..b |-> IF Len(a) = 1 THEN a[1] ELSE a[i]]

\* stats.chisquare(f_obs, f_exp) on 1-D arrays: broadcast the two shapes,
\* require the sums to agree to rtol = 1e-8, then the Pearson statistic
\* sum((o - e)^2 / e) and its p-value with k - 1 degrees of freedom
chisquare(f_obs, f_exp) ==
    IF ~(Len(f_obs) = Len(f_exp) \/ Len(f_obs) = 1 \/ Len(f_exp) = 1)
    THEN Raise("ValueError", "shape mismatch: objects cannot be broadcast to a single shape")
    ELSE
    Bind(IF Len(f_obs) = 1 THEN Len(f_exp) ELSE Len(f_obs), LAMBDA b :
    Bind(BroadcastTo(f_obs, b), LAMBDA o :
    Bind(BroadcastTo(f_exp, b), LAMBDA e :
    Bind(SumSeq(o), LAMBDA f_obs_sum :
    Bind(SumSeq(e), LAMBDA f_exp_sum :
    Bind(Div(FAbs(Sub(f_obs_sum, f_exp_sum)), FMin(f_obs_sum, f_exp_sum)), LAMBDA relative_diff :
    IF DiffGtTol(relative_diff)
    THEN Raise("ValueError", "the sum of the observed frequencies must agree with the sum of the expected frequencies")
    ELSE
    Bind(PearsonSum(o, e), LAMBDA stat :
    Ok([statistic |-> stat, pvalue |-> Chi2Sf(stat, b - 1)]))))))))

RECURSIVE SumRows(_)
\* column sums of a 2-D array (np.sum(observed, axis=0))
SumRows(rows) ==
    IF Len(rows) = 1 THEN rows[1]
    ELSE Bind(SumRows(Tail(rows)), LAMBDA rest : [j \in 1..Len(rows[1]) |-> Add(rows[1][j], rest[j])])

ColSums(rows) == SumRows(rows)
\* np.sum(observed, axis=1)
RowSums(rows) == [i \in 1..Len(rows) |-> SumSeq(rows[i])]
\* np.sum over a 2-D array
SumAll(rows) == SumSeq(RowSums(rows))
\* the cells of a 2-D array
Flat(rows) == {rows[i][j] : i \in 1..Len(rows), j \in 1..Len(rows[1])}
Half == Fin(1, 2)

\* the table of expected frequencies from the margins: row * column / total
ExpectedFrom(rs, cs, total) == [i \in 1..Len(rs) |-> [j \in 1..Len(cs) |-> Div(Mul(rs[i], cs[j]), total)]]

\* scipy.stats.contingency.expected_freq(observed)
expected_freq(observed) == ExpectedFrom(RowSums(observed), ColSums(observed), SumAll(observed))

\* Yates' correction of one cell: move it toward its expected value by at most 0.5
YatesCell(o, e) ==
    Bind(Sub(e, o), LAMBDA diff :
    IF IsZero(diff) THEN o
    ELSE IF Lt(PZero, diff) THEN Add(o, FMin(Half, FAbs(diff)))
    ELSE Sub(o, FMin(Half, FAbs(diff))))

\* sum((o - e)^2 / e) over a 2-D array, with Yates' correction when asked
PearsonSum2(observed, expected, yates) ==
    SumSeq([i \in 1..Len(observed) |->
        PearsonSum([j \in 1..Len(observed[i]) |->
                       IF yates THEN YatesCell(observed[i][j], expected[i][j]) ELSE observed[i][j]],
                   expected[i])])

\* stats.chi2_contingency(observed) on a 2-D table (correction=True):
\* negative cells and zero expected frequencies raise ValueError; the
\* expected table comes from the margins; Yates' correction applies when
\* dof == 1; dof == 0 gives chi2 = 0.0 and p = 1.0
chi2_contingency(observed) ==
    IF \E x \in Flat(observed) : Lt(x, PZero)
    THEN Raise("ValueError", "All values in observed must be nonnegative.")
    ELSE
    Bind(expected_freq(observed), LAMBDA expected :
    Bind((Len(observed) - 1) * (Len(observed[1]) - 1), LAMBDA dof :
    IF \E x \in Flat(expected) : NumEq(x, PZero)
    THEN Raise("ValueError", "The internally computed table of expected frequencies has a zero element")
    ELSE IF dof = 0
    THEN Ok([chi2 |-> PZero, p |-> FromInt(1), dof |-> dof, expected |-> expected])
    ELSE
    Bind(PearsonSum2(observed, expected, dof = 1), LAMBDA stat :
    Ok([chi2 |-> stat, p |-> Chi2Sf(stat, dof), dof |-> dof, expected |-> expected]))))

RECURSIVE Binomial(_, _)
Binomial(n, k) ==
    IF k < 0 \/ k > n THEN 0
    ELSE IF k = 0 THEN 1
    ELSE (Binomial(n - 1, k - 1) * n) \div k

RECURSIVE SumOver(_, _)
\* the sum of f over the set S
SumOver(f, S) ==
    IF S = {} THEN 0
    ELSE Bind(CHOOSE y \in S : TRUE, LAMBDA x : f[x] + SumOver(f, S \ {x}))

\* the two-sided p-value of the 2x2 table with cells a, b / c, d: the total
\* hypergeometric probability of the tables with the same margins that are
\* at most as likely as the observed one
FisherTwoSided(a, n1, n2, n) ==
    Bind(IF n - n2 > 0 THEN n - n2 ELSE 0, LAMBDA lo :
    Bind(IF n1 < n THEN n1 ELSE n, LAMBDA hi :
    Bind([x \in lo..hi |-> Binomial(n1, x) * Binomial(n2, n - x)], LAMBDA h :
    Fin(SumOver(h, {x \in lo..hi : h[x] <= h[a]}), Binomial(n1 + n2, n)))))

\* stats.fisher_exact(table) on a 2x2 table without a zero margin: negative
\* cells raise ValueError; the sample odds ratio (inf when table[1][0] or
\* table[0][1] is 0); the two-sided p-value
fisher_exact(table) ==
    IF \E x \in Flat(table) : Lt(x, PZero)
    THEN Raise("ValueError", "All values in table must be non-negative.")
    ELSE
    Bind(table[1][1].n, LAMBDA a :
    Bind(table[1][2].n, LAMBDA b :
    Bind(table[2][1].n, LAMBDA c :
    Bind(table[2][2].n, LAMBDA d :
    Ok([oddsratio |-> IF c > 0 /\ b > 0 THEN Fin(a * d, c * b) ELSE PInf,
        pvalue |-> FisherTwoSided(a, a + b, c + d, a + c)])))))

---------------------------------------------------------------------------
(* The request mapping and numpy arrays *)

\* a field the request does not carry
Absent == [t |-> "absent", v |-> <<>>]

\* data.get(key, default)
Get(d, key, default) == IF d[key] = Absent THEN default ELSE d[key]

RequestFields ==
    {"testType", "subtype", "observed", "distribution", "codes",
     "categoryLabels", "rowLabels", "colLabels"}

\* `not data`: the parsed body is an empty mapping
IsEmptyPayload(d) == \A f \in RequestFields : d[f] = Absent

\* np.array(lst, dtype=float) of a list of numbers (1-D) or of rows (2-D)
np_array(lst) ==
    IF lst.v = <<>> THEN [ndim |-> 1, size |-> 0, a |-> <<>>]
    ELSE IF lst.v[1].t = "list"
    THEN [ndim |-> 2, size |-> Len(lst.v) * Len(lst.v[1].v),
          a |-> [i \in 1..Len(lst.v) |-> [j \in 1..Len(lst.v[i].v) |-> FromInt(lst.v[i].v[j].v)]]]
    ELSE [ndim |-> 1, size |-> Len(lst.v), a |-> [i \in 1..Len(lst.v) |-> FromInt(lst.v[i].v)]]

\* arr.tolist() of a 1-D and of a 2-D array
ToList(a) == PyList([i \in 1..Len(a) |-> PyFloat(a[i])])
ToList2(a) == PyList([i \in 1..Len(a) |-> ToList(a[i])])

\* int(x) of a finite float: truncation toward zero
IntOf(x) == IF x.n < 0 THEN -((-x.n) \div Abs(x.d)) ELSE x.n \div Abs(x.d)

\* float(v) of a number
py_float(v) == IF v.t = "int" THEN FromInt(v.v) ELSE v.v

RECURSIVE QuoteJoin(_)
\* ", ".join(f"'{label}'" for label in labels), as fragments
QuoteJoin(labels) ==
    IF labels = <<>> THEN <<>>
    ELSE <<"'">> \o labels[1].v \o <<"'">>
         \o (IF Len(labels) > 1 THEN <<", ">> ELSE <<>>)
         \o QuoteJoin(Tail(labels))

\* label.split(':')[0]; a label is held as <<prefix, ":", rest>> or <<whole>>
SplitHead(label) == label.v[1]

\* the order of str on the prefixes drawn
StrRank(str) == CASE str = "g" -> 1 [] str = "h" -> 2 [] OTHER -> 3

RECURSIVE SortedList(_)
\* sorted(list(S)) of a set of str
SortedList(S) ==
    IF S = {} THEN <<>>
    ELSE LET least == CHOOSE x \in S : \A y \in S : StrRank(x) <= StrRank(y)
         IN <<PyStr(<<least>>)>> \o SortedList(S \ {least})

LowCellNote == "Note: The accuracy of this test may be reduced because one or more cells had an expected frequency below 5."
LowCategoryNote == "Note: At least one category had an expected frequency below 5, which can reduce the accuracy of this test."
ZeroMarginNote == "Note: The odds ratio cannot be calculated because one or more groups have zero observations."
UnreliableOddsNote == "Note: The odds ratio cannot be reliably calculated for this data configuration."

Five == FromInt(5)

---------------------------------------------------------------------------
(* The four computors *)

\* np.sum(observed) of a 1-D or 2-D array
np_sum(arr) == IF arr.ndim = 2 THEN SumAll(arr.a) ELSE SumSeq(arr.a)

\* observed.shape == (2, 2)
IsTwoByTwo(arr) == arr.ndim = 2 /\ Len(arr.a) = 2 /\ Len(arr.a[1]) = 2

\* np.any(expected < 5) of a 1-D and of a 2-D array
AnyBelowFive(expected) == \E i \in 1..Len(expected) : Lt(expected[i], Five)
AnyBelowFive2(expected) == \E x \in Flat(expected) : Lt(x, Five)

\* float(proportions_dict.get(str(code_id), 0)) / 100.0 for code_id in codes
Proportions(proportions_dict, codes) ==
    [i \in 1..Len(codes) |->
        Div(py_float(IF HasKey(proportions_dict, codes[i].v[1])
                     THEN Field(proportions_dict, codes[i].v[1])
                     ELSE PyInt(0)),
            FromInt(100))]

\* lines 110-117: the expected counts of a uniform or custom distribution
ExpectedCounts(distribution, observed, total_observed, codes) ==
    IF Field(distribution, "type") = PyStr(<<"uniform">>)
    THEN [i \in 1..Len(observed) |-> Div(total_observed, FromInt(Len(observed)))]
    ELSE Bind(Proportions(IF HasKey(distribution, "proportions")
                          THEN Field(distribution, "proportions") ELSE PyDict(<<>>), codes),
              LAMBDA proportions : [i \in 1..Len(codes) |-> Mul(total_observed, proportions[i])])

\* lines 121-149: the texts, the test and the result record
GoodnessOfFitRecord(observed, total_observed, expected, category_labels, categories_text, dist_text) ==
    Bind(chisquare(observed, expected), LAMBDA test :
    IF ~Returned(test) THEN test
    ELSE Ok(PyDict(<<
            <<"test", PyStr(<<"Chi-Square Test">>)>>,
            <<"subtype", PyStr(<<"Goodness-of-Fit">>)>>,
            <<"statistic", safe_float_conversion(PyFloat(test.value.statistic))>>,
            <<"pValue", safe_float_conversion(PyFloat(test.value.pvalue))>>,
            <<"df", PyInt(Len(observed) - 1)>>,
            <<"sampleSize", PyInt(IntOf(total_observed))>>,
            <<"observedCounts", ToList(observed)>>,
            <<"expectedCounts", ToList(expected)>>,
            <<"categoryLabels", category_labels>>,
            <<"nullHypothesis",
              PyStr(<<"The observed frequencies of the categories (">> \o categories_text
                    \o <<") match the expected ", dist_text, " distribution.">>)>>,
            <<"alternativeHypothesis",
              PyStr(<<"The observed frequencies of the categories (">> \o categories_text
                    \o <<") do not match the expected ", dist_text, " distribution.">>)>>,
            <<"interpretation",
              get_interpretation(test.value.pvalue, "Goodness-of-Fit",
                  <<"The frequencies of your categories (">> \o categories_text
                      \o <<") are significantly different from the expected ", dist_text, " distribution.">>,
                  <<"There is no statistical evidence that the frequencies of your categories (">> \o categories_text
                      \o <<") differ from the expected ", dist_text, " distribution.">>,
                  IF AnyBelowFive(expected) THEN LowCategoryNote ELSE "")>> >>)))

run_chi_square_goodness_of_fit(d) ==
    Bind(np_array(Get(d, "observed", PyList(<<>>))).a, LAMBDA observed :
    Bind(Get(d, "distribution", PyDict(<<>>)), LAMBDA distribution :
    Bind(Get(d, "codes", PyList(<<>>)).v, LAMBDA codes :
    Bind(Get(d, "categoryLabels", PyList(<<>>)), LAMBDA category_labels :
    IF Len(observed) = 0 THEN Raise("ValueError", "No observed data provided")
    ELSE
    Bind(SumSeq(observed), LAMBDA total_observed :
    IF NumEq(total_observed, PZero) THEN Raise("ValueError", "Total observed count is zero")
    ELSE IF /\ Field(distribution, "type") # PyStr(<<"uniform">>)
            /\ Field(distribution, "type") # PyStr(<<"custom">>)
    THEN Raise("ValueError", "Invalid distribution type specified.")
    ELSE
    Bind(ExpectedCounts(distribution, observed, total_observed, codes), LAMBDA expected :
    Bind(QuoteJoin(category_labels.v), LAMBDA categories_text :
    GoodnessOfFitRecord(observed, total_observed, expected, category_labels, categories_text,
        IF Field(distribution, "type") = PyStr(<<"uniform">>) THEN "uniform" ELSE "specified custom"))))))))

\* the variant of the checks on observed that fails with a TypeError on an
\* array that is not 2-D
CheckTable_type_error(arr) ==
    IF arr.size = 0 THEN Raise("ValueError", "No observed data provided")
    ELSE IF NumEq(np_sum(arr), PZero) THEN Raise("ValueError", "All observed values are zero")
    ELSE IF arr.ndim # 2 THEN Raise("TypeError", "Observed data must be a 2D contingency table")
    ELSE Ok(PyNone)

\* lines 165-172 and 223-230: the three checks on observed
CheckTable(arr) ==
    IF arr.size = 0 THEN Raise("ValueError", "No observed data provided")
    ELSE IF NumEq(np_sum(arr), PZero) THEN Raise("ValueError", "All observed values are zero")
    ELSE IF arr.ndim # 2 THEN Raise("ValueError", "Observed data must be a 2D contingency table")
    ELSE Ok(PyNone)

\* lines 192-207: the result record of the independence test
IndependenceRecord(observed, test, cramers_v, row_labels, col_labels) ==
    Ok(PyDict(<<
        <<"test", PyStr(<<"Chi-Square Test">>)>>,
        <<"subtype", PyStr(<<"Independence">>)>>,
        <<"statistic", safe_float_conversion(PyFloat(test.chi2))>>,
        <<"pValue", safe_float_conversion(PyFloat(test.p))>>,
        <<"df", PyInt(test.dof)>>,
        <<"cramersV", safe_float_conversion(cramers_v)>>,
        <<"sampleSize", PyInt(IntOf(SumAll(observed)))>>,
        <<"observedTable", ToList2(observed)>>,
        <<"expectedTable", ToList2(test.expected)>>,
        <<"rowLabels", row_labels>>,
        <<"colLabels", col_labels>>,
        <<"nullHypothesis",
          PyStr(<<"There is no association between the variables '", "Codes", "' and '", "Documents", "'.">>)>>,
        <<"alternativeHypothesis",
          PyStr(<<"There is a significant association between the variables '", "Codes", "' and '", "Documents", "'.">>)>>,
        <<"interpretation",
          get_interpretation(test.p, "independence",
              <<"The analysis suggests a significant association exists between your selected codes and documents.">>,
              <<"There is no statistical evidence of an association between your selected codes and documents.">>,
              IF AnyBelowFive2(test.expected) THEN LowCellNote ELSE "")>> >>))

run_chi_square_independence(d) ==
    Bind(Get(d, "observed", PyList(<<>>)), LAMBDA observed_list :
    Bind(Get(d, "rowLabels", PyList(<<>>)), LAMBDA row_labels :
    Bind(Get(d, "colLabels", PyList(<<>>)), LAMBDA col_labels :
    Bind(np_array(observed_list), LAMBDA observed :
    Bind(CheckTable(observed), LAMBDA checked :
    IF ~Returned(checked) THEN checked
    ELSE
    Bind(chi2_contingency(observed.a), LAMBDA test :
    IF ~Returned(test) THEN test
    ELSE
    Bind(calculate_cramers_v(PyFloat(test.value.chi2), SumAll(observed.a),
                             <<Len(observed.a), Len(observed.a[1])>>), LAMBDA cramers_v :
    IF ~Returned(cramers_v) THEN cramers_v
    ELSE IndependenceRecord(observed.a, test.value, cramers_v.value, row_labels, col_labels))))))))

\* lines 237-243: the two hypotheses of the homogeneity test
HomogeneityHypothesis(unique_vars, var_name, group_name, tail) ==
    PyStr(<<"The distribution of the ", IF Len(unique_vars) > 1 THEN "codes" ELSE "code", " (">>
          \o var_name \o <<tail>> \o group_name \o <<").">>)

\* the variant of the homogeneity record that reports rows - 1 degrees of
\* freedom
HomogeneityRecord_rows_df(observed, test, cramers_v, row_labels, col_labels, unique_vars) ==
    IndependenceRecord(observed, [test EXCEPT !.dof = Len(observed) - 1], cramers_v, row_labels, col_labels)

\* lines 254-269: the result record of the homogeneity test
HomogeneityRecord(observed, test, cramers_v, row_labels, col_labels, unique_vars) ==
    Ok(PyDict(<<
        <<"test", PyStr(<<"Chi-Square Test">>)>>,
        <<"subtype", PyStr(<<"Homogeneity">>)>>,
        <<"statistic", safe_float_conversion(PyFloat(test.chi2))>>,
        <<"pValue", safe_float_conversion(PyFloat(test.p))>>,
        <<"df", PyInt(test.dof)>>,
        <<"cramersV", safe_float_conversion(cramers_v)>>,
        <<"sampleSize", PyInt(IntOf(SumAll(observed)))>>,
        <<"observedTable", ToList2(observed)>>,
        <<"expectedTable", ToList2(test.expected)>>,
        <<"rowLabels", row_labels>>,
        <<"colLabels", col_labels>>,
        <<"nullHypothesis",
          HomogeneityHypothesis(unique_vars, QuoteJoin(unique_vars), QuoteJoin(col_labels.v),
                                ") is the same across all groups (")>>,
        <<"alternativeHypothesis",
          HomogeneityHypothesis(unique_vars, QuoteJoin(unique_vars), QuoteJoin(col_labels.v),
                                ") is different for at least one group in (")>>,
        <<"interpretation",
          get_interpretation(test.p, "homogeneity",
              <<"The analysis suggests that the frequency distribution of codes is significantly different across the defined groups.">>,
              <<"There is no statistical evidence that the frequency distribution of codes differs across the defined groups.">>,
              IF AnyBelowFive2(test.expected) THEN LowCellNote ELSE "")>> >>))

run_chi_square_homogeneity(d) ==
    Bind(Get(d, "observed", PyList(<<>>)), LAMBDA observed_list :
    Bind(Get(d, "rowLabels", PyList(<<>>)), LAMBDA row_labels :
    Bind(Get(d, "colLabels", PyList(<<>>)), LAMBDA col_labels :
    Bind(np_array(observed_list), LAMBDA observed :
    Bind(CheckTable(observed), LAMBDA checked :
    IF ~Returned(checked) THEN checked
    ELSE
    Bind(chi2_contingency(observed.a), LAMBDA test :
    IF ~Returned(test) THEN test
    ELSE
    Bind(calculate_cramers_v(PyFloat(test.value.chi2), SumAll(observed.a),
                             <<Len(observed.a), Len(observed.a[1])>>), LAMBDA cramers_v :
    IF ~Returned(cramers_v) THEN cramers_v
    ELSE
    Bind(SortedList({SplitHead(row_labels.v[i]) : i \in 1..Len(row_labels.v)}), LAMBDA unique_vars :
    HomogeneityRecord(observed.a, test.value, cramers_v.value, row_labels, col_labels, unique_vars)))))))))

\* np.any(row_sums == 0) or np.any(col_sums == 0)
HasZeroMargin(row_sums, col_sums) ==
    \/ \E i \in 1..Len(row_sums) : NumEq(row_sums[i], PZero)
    \/ \E j \in 1..Len(col_sums) : NumEq(col_sums[j], PZero)

\* lines 291-304: odds_ratio, p_value and test_notes of the two branches
FisherBranch(observed) ==
    IF HasZeroMargin(RowSums(observed), ColSums(observed))
    THEN Ok([odds_ratio |-> PyNone, p_value |-> FromInt(1), test_notes |-> ZeroMarginNote,
             procedure |-> {}])
    ELSE
    Bind(fisher_exact(observed), LAMBDA test :
    IF ~Returned(test) THEN test
    ELSE IF IsNaN(test.value.oddsratio) \/ IsInf(test.value.oddsratio)
    THEN Ok([odds_ratio |-> PyNone, p_value |-> test.value.pvalue,
             test_notes |-> UnreliableOddsNote, procedure |-> {"fisher_exact"}])
    ELSE Ok([odds_ratio |-> PyFloat(test.value.oddsratio), p_value |-> test.value.pvalue,
             test_notes |-> "", procedure |-> {"fisher_exact"}]))

\* lines 306-330: the texts and the result record; row_labels[0], row_labels[1],
\* col_labels[0], col_labels[1] raise IndexError on a list shorter than 2
FisherRecord(observed, branch, row_labels, col_labels) ==
    IF Len(row_labels.v) < 2 \/ Len(col_labels.v) < 2
    THEN Raise("IndexError", "list index out of range")
    ELSE Ok(PyDict(<<
        <<"test", PyStr(<<"Fisher's Exact Test">>)>>,
        <<"subtype", PyStr(<<"Contingency">>)>>,
        <<"statistic", safe_float_conversion(branch.odds_ratio)>>,
        <<"statisticLabel", PyStr(<<"Odds Ratio">>)>>,
        <<"pValue", safe_float_conversion(PyFloat(branch.p_value))>>,
        <<"df", PyStr(<<"N/A">>)>>,
        <<"sampleSize", PyInt(IntOf(SumAll(observed)))>>,
        <<"observedTable", ToList2(observed)>>,
        <<"rowLabels", row_labels>>,
        <<"colLabels", col_labels>>,
        <<"nullHypothesis",
          PyStr(<<"There is no association between '", "Variable 1", "' (">> \o row_labels.v[1].v
                \o <<" vs ">> \o row_labels.v[2].v \o <<") and '", "Variable 2", "' (">>
                \o col_labels.v[1].v \o <<" vs ">> \o col_labels.v[2].v \o <<").">>)>>,
        <<"alternativeHypothesis", PyStr(<<"There is a non-random association between the two variables.">>)>>,
        <<"interpretation",
          get_interpretation(branch.p_value, "fisher",
              <<"The analysis reveals a significant association between the variables.">>,
              <<"There is no statistical evidence of an association between the variables.">>,
              branch.test_notes)>> >>))

run_fishers_exact_test(d) ==
    Bind(Get(d, "observed", PyList(<<>>)), LAMBDA observed_list :
    Bind(Get(d, "rowLabels", PyList(<<>>)), LAMBDA row_labels :
    Bind(Get(d, "colLabels", PyList(<<>>)), LAMBDA col_labels :
    Bind(np_array(observed_list), LAMBDA observed :
    IF ~IsTwoByTwo(observed)
    THEN Raise("ValueError", "Fisher's Exact Test is only applicable to 2x2 tables.")
    ELSE
    Bind(FisherBranch(observed.a), LAMBDA branch :
    IF ~Returned(branch) THEN branch
    ELSE FisherRecord(observed.a, branch.value, row_labels, col_labels))))))

---------------------------------------------------------------------------
(* Placeholders of the variables a specification does not use *)

NoOutcome == [kind |-> "none", value |-> PyNone, msg |-> ""]
NoResponse == [status |-> 0, body |-> PyNone]
NoData == PyDict(<<>>)

---------------------------------------------------------------------------
(* handle_test_request *)

ChiSquare == PyStr(<<"chi-square">>)
GoodnessOfFit == PyStr(<<"goodness-of-fit">>)
Independence == PyStr(<<"independence">>)
Homogeneity == PyStr(<<"homogeneity">>)
FishersExact == PyStr(<<"fishers-exact">>)
KnownSubtypes == {GoodnessOfFit, Independence, Homogeneity, FishersExact}

\* jsonify({"message": text}), status
ErrorResponse(status, text) ==
    [status |-> status, body |-> PyDict(<< <<"message", PyStr(text)>> >>)]

\* lines 361-372 for the outcome of the computor called: the encoder round
\* trip and jsonify of a returned record, `except ValueError` (400),
\* `except Exception` (500)
Answer(name, out) ==
    /\ calls' = {name}
    /\ result' = out
    /\ IF Returned(out)
       THEN /\ wire' = NaNEncoder_encode(out.value)
            /\ response' = [status |-> 200, body |-> json_loads(NaNEncoder_encode(out.value))]
       ELSE IF out.kind = "ValueError"
       THEN /\ wire' = <<>>
            /\ response' = ErrorResponse(400, <<"Validation error: ", out.msg>>)
       ELSE /\ wire' = <<>>
            /\ response' = ErrorResponse(500, <<"An internal error occurred: ", out.msg>>)

\* a 400 returned before any computor is called
Refuse(text) ==
    /\ response' = ErrorResponse(400, text)
    /\ UNCHANGED <<result, calls, wire>>

---------------------------------------------------------------------------
(* Requests *)

Cells == {-1, 0, 1, MaxCount}

ListOfInts(seq) == PyList([i \in 1..Len(seq) |-> PyInt(seq[i])])

\* 1-D observed sequences
Observed1D == {ListOfInts(seq) : seq \in SeqsUpTo(Cells, MaxCats)}

\* 2-D observed tables, of 1 or 2 columns
Observed2D ==
    UNION {{PyList([i \in 1..r |-> ListOfInts(t[i])]) : t \in [1..r -> [1..c -> Cells]]} :
             r \in 1..MaxRows, c \in 1..2}

CodeIds == {"a", "b"}
CodeLists == {PyList([i \in 1..Len(seq) |-> PyStr(<<seq[i]>>)]) : seq \in SeqsUpTo(CodeIds, MaxCats)}

\* a percentage as the request carries it (json.loads reads the literal NaN
\* as a float)
Percentages == {PyInt(50), PyInt(100), PyFloat(NaN)}

\* proportions mappings: each code id missing or mapped to a percentage
ProportionMaps ==
    {PyDict(<<>>)}
    \cup {PyDict(<< <<k, x>> >>) : k \in CodeIds, x \in Percentages}
    \cup {PyDict(<< <<"a", x>>, <<"b", y>> >>) : x \in Percentages, y \in Percentages}

Distributions ==
    {PyDict(<< <<"type", PyStr(<<"uniform">>)>> >>),
     PyDict(<< <<"type", PyStr(<<"poisson">>)>> >>),
     PyDict(<< <<"type", PyStr(<<"custom">>)>> >>)}
    \cup {PyDict(<< <<"type", PyStr(<<"custom">>)>>, <<"proportions", m>> >>) : m \in ProportionMaps}

CategoryLabels == PyList(<<PyStr(<<"A">>), PyStr(<<"B">>)>>)
RowLabelChoices ==
    {Absent, PyList(<<PyStr(<<"g", ":", "x">>)>>),
     PyList(<<PyStr(<<"h", ":", "y">>), PyStr(<<"g", ":", "x">>)>>)}
ColLabelChoices == {Absent, PyList(<<PyStr(<<"D1">>), PyStr(<<"D2">>)>>)}

Request(tt, st, obs, dist, codes, cats, rows, cols) ==
    [testType |-> tt, subtype |-> st, observed |-> obs, distribution |-> dist,
     codes |-> codes, categoryLabels |-> cats, rowLabels |-> rows, colLabels |-> cols]

GoodnessOfFitRequests ==
    {Request(ChiSquare, GoodnessOfFit, obs, dist, Absent, cats, Absent, Absent) :
        obs \in Observed1D \cup {Absent}, dist \in {Absent, PyDict(<< <<"type", PyStr(<<"uniform">>)>> >>)},
        cats \in {Absent, CategoryLabels}}
    \cup {Request(ChiSquare, GoodnessOfFit, obs, dist, codes, CategoryLabels, Absent, Absent) :
        obs \in Observed1D, dist \in Distributions, codes \in CodeLists}

TableRequests ==
    {Request(ChiSquare, st, obs, Absent, Absent, Absent, rows, cols) :
        st \in {Independence, Homogeneity, FishersExact},
        obs \in Observed2D \cup Observed1D \cup {Absent},
        rows \in RowLabelChoices, cols \in ColLabelChoices}

SomeTable == PyList(<<ListOfInts(<<MaxCount, 0>>), ListOfInts(<<0, MaxCount>>)>>)

\* requests the dispatcher turns away, the empty mapping among them
RejectedRequests ==
    {Request(tt, st, obs, Absent, Absent, Absent, Absent, Absent) :
        tt \in {Absent, PyStr(<<"t-test">>), ChiSquare},
        st \in KnownSubtypes \cup {Absent, PyStr(<<"bogus">>)},
        obs \in {Absent, SomeTable}}
    \ {Request(ChiSquare, st, obs, Absent, Absent, Absent, Absent, Absent) :
        st \in KnownSubtypes, obs \in {Absent, SomeTable}}

Requests == GoodnessOfFitRequests \cup TableRequests \cup RejectedRequests

---------------------------------------------------------------------------
(* Spec: the service handling one request after another *)

Init ==
    /\ pc = "idle"
    /\ data = NoData
    /\ result = NoOutcome
    /\ response = NoResponse
    /\ calls = {}
    /\ wire = <<>>
    /\ args = PyNone
    /\ ret = PyNone

\* a POST arrives; request.get_json() yields its mapping
Receive ==
    /\ pc = "idle"
    /\ data' \in Requests
    /\ pc' = "received"
    /\ UNCHANGED <<result, response, calls, wire, args, ret>>

\* the variant of handle_test_request that hands a request of an unknown
\* subtype to the last computor
handle_test_request_any_subtype ==
    /\ pc = "received"
    /\ pc' = "responded"
    /\ UNCHANGED <<data, args, ret>>
    /\ LET test_type == Get(data, "testType", PyNone)
           subtype == Get(data, "subtype", PyNone)
       IN IF IsEmptyPayload(data) THEN Refuse(<<"Invalid JSON payload">>)
          ELSE IF test_type = ChiSquare
          THEN IF subtype = GoodnessOfFit
               THEN Answer("run_chi_square_goodness_of_fit", run_chi_square_goodness_of_fit(data))
               ELSE IF subtype = Independence
               THEN Answer("run_chi_square_independence", run_chi_square_independence(data))
               ELSE IF subtype = Homogeneity
               THEN Answer("run_chi_square_homogeneity", run_chi_square_homogeneity(data))
               ELSE Answer("run_fishers_exact_test", run_fishers_exact_test(data))
          ELSE Refuse(<<"Unsupported test type: ", test_type>>)

\* the whole of handle_test_request on the request received
handle_test_request ==
    /\ pc = "received"
    /\ pc' = "responded"
    /\ UNCHANGED <<data, args, ret>>
    /\ LET test_type == Get(data, "testType", PyNone)
           subtype == Get(data, "subtype", PyNone)
       IN IF IsEmptyPayload(data) THEN Refuse(<<"Invalid JSON payload">>)
          ELSE IF test_type = ChiSquare
          THEN IF subtype = GoodnessOfFit
               THEN Answer("run_chi_square_goodness_of_fit", run_chi_square_goodness_of_fit(data))
               ELSE IF subtype = Independence
               THEN Answer("run_chi_square_independence", run_chi_square_independence(data))
               ELSE IF subtype = Homogeneity
               THEN Answer("run_chi_square_homogeneity", run_chi_square_homogeneity(data))
               ELSE IF subtype = FishersExact
               THEN Answer("run_fishers_exact_test", run_fishers_exact_test(data))
               ELSE Refuse(<<"Invalid Chi-Square subtype: ", subtype>>)
          ELSE Refuse(<<"Unsupported test type: ", test_type>>)

\* the response has been sent; nothing of the request is kept
Serve ==
    /\ pc = "responded"
    /\ pc' = "idle"
    /\ data' = NoData
    /\ result' = NoOutcome
    /\ response' = NoResponse
    /\ calls' = {}
    /\ wire' = <<>>
    /\ UNCHANGED <<args, ret>>

Next == Receive \/ handle_test_request \/ Serve

Spec == Init /\ [][Next]_vars

---------------------------------------------------------------------------
(* SpecEncoder: json.loads(json.dumps(record, cls=NaNEncoder)) on nested   *)
(* records (lines 361-363 applied to any record)                           *)

EncScalars ==
    {PyNone, PyInt(7), PyStr(<<"x">>), PyFloat(Fin(3, 2)),
     PyFloat(NaN), PyFloat(PInf), PyFloat(NInf)}
EncKeys == {"a", "b"}
\* values nested one level down: scalars, lists, a list in a list, a dict
EncNested ==
    EncScalars
    \cup {PyList(s) : s \in SeqsUpTo(EncScalars, MaxLen)}
    \cup {PyList(<<PyList(<<x>>)>>) : x \in EncScalars}
    \cup {PyDict(<<<<"k", x>>>>) : x \in EncScalars}
EncRecords ==
    EncNested
    \cup {PyDict(<<<<k, x>>>>) : k \in EncKeys, x \in EncNested}
    \cup {PyDict(<<<<k[1], x>>, <<k[2], y>>>>) :
            k \in {q \in EncKeys \X EncKeys : q[1] # q[2]}, x \in EncNested, y \in EncScalars}

InitEncoder ==
    /\ pc = "start"
    /\ args \in EncRecords
    /\ wire = <<>>
    /\ ret = PyNone
    /\ data = NoData /\ result = NoOutcome /\ response = NoResponse /\ calls = {}

\* response_json = json.dumps(result, cls=NaNEncoder)
DumpsRecord ==
    /\ pc = "start"
    /\ wire' = NaNEncoder_encode(args)
    /\ pc' = "encoded"
    /\ UNCHANGED <<data, result, response, calls, args, ret>>

\* parsed_result = json.loads(response_json)
LoadsRecord ==
    /\ pc = "encoded"
    /\ ret' = json_loads(wire)
    /\ pc' = "decoded"
    /\ UNCHANGED <<data, result, response, calls, args, wire>>

NextEncoder == DumpsRecord \/ LoadsRecord

SpecEncoder == InitEncoder /\ [][NextEncoder]_vars

---------------------------------------------------------------------------
(* SpecCramers: calculate_cramers_v on a statistic (absent, or >= 0, or  *)
(* non-finite), a sample size >= 0 and a table shape                     *)

CramersChi2 ==
    {PyNone} \cup {PyFloat(x) : x \in {PZero, Fin(1, 2), FromInt(1), FromInt(2), FromInt(4),
                                       FromInt(MaxCount), NaN, PInf}}
CramersN == {FromInt(i) : i \in {0, 1, 2, MaxCount}}
CramersShapes == (1..MaxShape) \X (1..MaxShape)

InitCramers ==
    /\ pc = "start"
    /\ args \in [chi2 : CramersChi2, n : CramersN, shape : CramersShapes]
    /\ ret = PyNone
    /\ wire = <<>>
    /\ data = NoData /\ result = NoOutcome /\ response = NoResponse /\ calls = {}

\* cramers_v = calculate_cramers_v(chi2, n, observed)
CallCramers ==
    /\ pc = "start"
    /\ ret' = calculate_cramers_v(args.chi2, args.n, args.shape)
    /\ pc' = "returned"
    /\ UNCHANGED <<data, result, response, calls, args, wire>>

NextCramers == CallCramers

SpecCramers == InitCramers /\ [][NextCramers]_vars

---------------------------------------------------------------------------
(* SpecInterp: get_interpretation on a p-value, two conclusions and the  *)
(* notes, and the pValue and interpretation fields of the record built   *)
(* from them (lines 134-149)                                             *)

InterpPValues ==
    {NaN, PZero, Fin(1, 1000), Fin(49, 1000), Fin(5, 100), Fin(51, 1000), Fin(1, 2), FromInt(1)}
InterpConclusions == {<<"It differs.">>, <<"The groups (">> \o QuoteJoin(CategoryLabels.v) \o <<") differ.">>}
InterpNotes == {"", LowCellNote, LowCategoryNote}

InitInterp ==
    /\ pc = "start"
    /\ args \in [p : InterpPValues, positive : InterpConclusions,
                 negative : {<<"No evidence.">>, <<"Nothing found.">>}, notes : InterpNotes]
    /\ ret = PyNone
    /\ wire = <<>>
    /\ data = NoData /\ result = NoOutcome /\ response = NoResponse /\ calls = {}

\* interpretation = get_interpretation(p, subtype, positive, negative, test_notes)
Interpret ==
    /\ pc = "start"
    /\ ret' = get_interpretation(args.p, "Goodness-of-Fit", args.positive, args.negative, args.notes)
    /\ pc' = "interpreted"
    /\ UNCHANGED <<data, result, response, calls, args, wire>>

\* the "pValue" and "interpretation" items of the record returned
AssembleRecord ==
    /\ pc = "interpreted"
    /\ result' = Ok(PyDict(<< <<"pValue", safe_float_conversion(PyFloat(args.p))>>,
                             <<"interpretation", ret>> >>))
    /\ pc' = "assembled"
    /\ UNCHANGED <<data, response, calls, args, ret, wire>>

NextInterp == Interpret \/ AssembleRecord

SpecInterp == InitInterp /\ [][NextInterp]_vars

---------------------------------------------------------------------------
(* Claims *)

\* the request's observed field as sent (an absent one is the empty list)
ObservedOf(d) == IF d.observed = Absent THEN PyList(<<>>) ELSE d.observed
IsTable(obs) == obs.v # <<>> /\ obs.v[1].t = "list"

RECURSIVE SumInts(_)
\* the total of a list of integers
SumInts(cells) == IF cells = <<>> THEN 0 ELSE cells[1].v + SumInts(Tail(cells))

RECURSIVE SumRowsInts(_)
SumRowsInts(rows) == IF rows = <<>> THEN 0 ELSE SumInts(rows[1].v) + SumRowsInts(Tail(rows))

\* the total of the observed counts as sent
RawTotal(obs) == IF IsTable(obs) THEN SumRowsInts(obs.v) ELSE SumInts(obs.v)

RawTwoByTwo(obs) == IsTable(obs) /\ Len(obs.v) = 2 /\ \A i \in 1..2 : Len(obs.v[i].v) = 2

\* a 2x2 table as sent with a zero row sum or a zero column sum
RawZeroMargin(obs) ==
    /\ RawTwoByTwo(obs)
    /\ \/ \E i \in 1..2 : obs.v[i].v[1].v + obs.v[i].v[2].v = 0
       \/ \E j \in 1..2 : obs.v[1].v[j].v + obs.v[2].v[j].v = 0

\* every count sent is >= 0
NonNegative(obs) ==
    IF IsTable(obs) THEN \A i \in 1..Len(obs.v) : \A j \in 1..Len(obs.v[i].v) : obs.v[i].v[j].v >= 0
    ELSE \A i \in 1..Len(obs.v) : obs.v[i].v >= 0

DistributionType(d) ==
    IF d.distribution = Absent THEN PyNone ELSE Field(d.distribution, "type")

\* a precondition of the computor the request is for fails
PreconditionFails(d) ==
    CASE d.subtype = GoodnessOfFit ->
            \/ ObservedOf(d).v = <<>>
            \/ RawTotal(ObservedOf(d)) = 0
            \/ DistributionType(d) \notin {PyStr(<<"uniform">>), PyStr(<<"custom">>)}
      [] d.subtype \in {Independence, Homogeneity} ->
            \/ ObservedOf(d).v = <<>>
            \/ RawTotal(ObservedOf(d)) = 0
            \/ ~IsTable(ObservedOf(d))
      [] d.subtype = FishersExact -> ~RawTwoByTwo(ObservedOf(d))
      [] OTHER -> FALSE

Keys(body) == {body.v[i][1] : i \in 1..Len(body.v)}

ResultKeys(subtype) ==
    {"test", "subtype", "statistic", "pValue", "df", "sampleSize",
     "nullHypothesis", "alternativeHypothesis", "interpretation"}
    \cup (IF subtype = GoodnessOfFit THEN {"observedCounts", "expectedCounts", "categoryLabels"}
          ELSE {"observedTable", "rowLabels", "colLabels"})
    \cup (IF subtype \in {Independence, Homogeneity} THEN {"cramersV", "expectedTable"} ELSE {})
    \cup (IF subtype = FishersExact THEN {"statisticLabel"} ELSE {})

Dispatched == pc = "responded" /\ data.testType = ChiSquare /\ data.subtype \in KnownSubtypes

\* C1: a request with a non-empty body whose testType is not chi-square, or
\* whose testType is chi-square and whose subtype is none of the four, is
\* answered with a validation-failure (400) error record, and no computor
\* has been invoked for it.
C1_UnsupportedRejected ==
    (/\ pc = "responded"
     /\ ~IsEmptyPayload(data)
     /\ (data.testType # ChiSquare \/ data.subtype \notin KnownSubtypes))
    => /\ response.status = 400
       /\ Keys(response.body) = {"message"}
       /\ calls = {}
       /\ result = NoOutcome

\* a chi-square request of subtype bogus, carrying a table, was refused
C1_Witness ==
    /\ pc = "responded"
    /\ data.testType = ChiSquare
    /\ data.subtype = PyStr(<<"bogus">>)
    /\ data.observed = SomeTable
    /\ response.status = 400
    /\ calls = {}

C3_ZeroMarginNeverRaises ==
    (/\ pc = "responded"
     /\ calls = {"run_fishers_exact_test"}
     /\ NonNegative(ObservedOf(data))
     /\ RawZeroMargin(ObservedOf(data)))
    => /\ Returned(result)
       /\ Field(result.value, "statistic") = PyNone
       /\ Field(result.value, "pValue") = PyFloat(FromInt(1))
       /\ Field(result.value, "interpretation").v[Len(Field(result.value, "interpretation").v)] = ZeroMarginNote

\* the outcome of the other of the two computors on the same request
OtherOutcome ==
    IF data.subtype = Independence THEN run_chi_square_homogeneity(data)
    ELSE run_chi_square_independence(data)

SharedFields == {"statistic", "pValue", "df", "cramersV", "sampleSize", "observedTable", "expectedTable"}

\* C4: run_chi_square_homogeneity and run_chi_square_independence on the
\* same request have the same outcome kind (both return, or both fail with
\* the same error class), and when they return, statistic, pValue, df,
\* cramersV, sampleSize, observedTable and expectedTable are identical.
C4_HomogeneityIsIndependence ==
    (Dispatched /\ data.subtype \in {Independence, Homogeneity}) =>
        /\ OtherOutcome.kind = result.kind
        /\ Returned(result) =>
              \A f \in SharedFields : Field(OtherOutcome.value, f) = Field(result.value, f)

\* a homogeneity result on a labelled table, with a statistic above zero and
\* a null hypothesis that is not the independence one
C4_Witness ==
    /\ Dispatched
    /\ data.subtype = Homogeneity
    /\ data.rowLabels # Absent
    /\ Returned(result)
    /\ Lt(PZero, Field(result.value, "statistic").v)
    /\ Field(result.value, "cramersV") # PyNone
    /\ Returned(OtherOutcome)
    /\ Field(OtherOutcome.value, "nullHypothesis") # Field(result.value, "nullHypothesis")

RECURSIVE Nulled(_)
\* the record with the absent marker at every position holding NaN or +-Infinity
Nulled(v) ==
    IF v.t = "dict" THEN PyDict([i \in 1..Len(v.v) |-> <<v.v[i][1], Nulled(v.v[i][2])>>])
    ELSE IF v.t = "list" THEN PyList([i \in 1..Len(v.v) |-> Nulled(v.v[i])])
    ELSE IF v.t = "float" /\ v.v.k # "fin" THEN PyNone
    ELSE v

RECURSIVE HasNonFinite(_)
\* some position of the record, at any depth, holds NaN or +-Infinity
HasNonFinite(v) ==
    IF v.t = "dict" THEN \E i \in 1..Len(v.v) : HasNonFinite(v.v[i][2])
    ELSE IF v.t = "list" THEN \E i \in 1..Len(v.v) : HasNonFinite(v.v[i])
    ELSE v.t = "float" /\ v.v.k # "fin"

NonFiniteLiterals == {"NaN", "Infinity", "-Infinity"}

\* a pValue field: absent, or a number of [0, 1]
ProbabilityOrAbsent(p) ==
    \/ p = PyNone
    \/ p.t = "float" /\ p.v.k = "fin" /\ 0 <= p.v.n /\ p.v.n <= Abs(p.v.d)

\* C5: no response of handle_test_request holds NaN or +-Infinity at any
\* position, top-level or nested in a list or table: the text sent has no
\* non-finite literal, each such value of the record is the absent marker in
\* the response, and the pValue of a result is absent or within [0, 1].
C5_NoNonFiniteInResponse ==
    pc = "responded" =>
        /\ ~HasNonFinite(response.body)
        /\ \A i \in 1..Len(wire) : wire[i].t \notin NonFiniteLiterals
        /\ response.status = 200 =>
              /\ response.body = Nulled(result.value)
              /\ ProbabilityOrAbsent(Field(response.body, "pValue"))

\* a goodness-of-fit result whose expectedCounts held a NaN, answered with
\* the absent marker in its place and an absent pValue
C5_Witness ==
    /\ pc = "responded"
    /\ response.status = 200
    /\ data.subtype = GoodnessOfFit
    /\ \E i \in 1..Len(Field(result.value, "expectedCounts").v) :
          /\ Field(result.value, "expectedCounts").v[i] = PyFloat(NaN)
          /\ Field(response.body, "expectedCounts").v[i] = PyNone
    /\ Field(response.body, "pValue") = PyNone

\* the sum of a list of floats (NaN when an entry is no float)
FloatSum(list) ==
    IF \A i \in 1..Len(list.v) : list.v[i].t = "float"
    THEN SumSeq([i \in 1..Len(list.v) |-> list.v[i].v])
    ELSE NaN

\* C6: in every goodness-of-fit result (on counts >= 0) the sum of
\* expectedCounts equals the sum of observedCounts and the two have the same
\* length, for a uniform distribution and for a custom one with any
\* proportions and any codes.
C6_ExpectedMatchesObserved ==
    (/\ pc = "responded"
     /\ calls = {"run_chi_square_goodness_of_fit"}
     /\ NonNegative(ObservedOf(data))
     /\ response.status = 200)
    => /\ Len(Field(response.body, "expectedCounts").v) = Len(Field(response.body, "observedCounts").v)
       /\ NumEq(FloatSum(Field(response.body, "expectedCounts")),
                FloatSum(Field(response.body, "observedCounts")))

\* C7: the goodness-of-fit, independence and homogeneity computors answer a
\* request whose observed is empty or whose total is <= 0 with a validation
\* failure and no result record; a result is returned only for a total > 0.
C7_RejectsNonPositiveTotal ==
    (Dispatched /\ data.subtype \in {GoodnessOfFit, Independence, Homogeneity}) =>
        /\ (ObservedOf(data).v = <<>> \/ RawTotal(ObservedOf(data)) <= 0) =>
              (response.status = 400 /\ ~Returned(result))
        /\ Returned(result) => RawTotal(ObservedOf(data)) > 0

MinDim(shape) == IF shape[1] < shape[2] THEN shape[1] - 1 ELSE shape[2] - 1

\* v is sqrt((chi2 / n) / m) to 1/SqrtScale, rounded down, for finite chi2 >= 0
\* and integers n > 0, m > 0: v^2 <= chi2/(n*m) < (v + 1/SqrtScale)^2
IsSqrtOfRatio(v, chi2, n, m) ==
    /\ v.k = "fin" /\ v.n >= 0
    /\ v.n * v.n * chi2.d * n * m <= chi2.n * v.d * v.d
    /\ chi2.n * (v.d * SqrtScale) * (v.d * SqrtScale)
          < (v.n * SqrtScale + v.d) * (v.n * SqrtScale + v.d) * chi2.d * n * m

\* the value calculate_cramers_v owes when it computes the square root
IsCramersV(r, chi2, n, m) ==
    /\ Returned(r)
    /\ r.value.t = "float"
    /\ IF chi2.k = "fin" THEN IsSqrtOfRatio(r.value.v, chi2, n, m) ELSE r.value.v = chi2

\* C8: calculate_cramers_v returns the absent marker when chi2 is absent or
\* n == 0, whatever the shape of the table; otherwise it returns exactly 0.0
\* for a table of shape 1xn or nx1 regardless of chi2, and
\* sqrt((chi2/n)/min(rows-1, cols-1)) for every other shape.
C8_CramersV ==
    pc = "returned" =>
        IF args.chi2 = PyNone \/ args.n.n = 0 THEN ret = Ok(PyNone)
        ELSE IF MinDim(args.shape) = 0 THEN ret = Ok(PyFloat(PZero))
        ELSE IsCramersV(ret, args.chi2.v, args.n.n, MinDim(args.shape))

\* the call on a 1x3 table with n == 0 and a statistic has returned the
\* absent marker
C8_Witness ==
    /\ pc = "returned"
    /\ args.shape = <<1, MaxShape>>
    /\ args.n = PZero
    /\ args.chi2 = PyFloat(FromInt(4))
    /\ ret = Ok(PyNone)

\* C8 as stated: 0.0 for every 1xn or nx1 table regardless of chi2, the
\* absent marker when chi2 is absent or n == 0, the square root otherwise.
C8_AsStated ==
    pc = "returned" =>
        /\ MinDim(args.shape) = 0 => ret = Ok(PyFloat(PZero))
        /\ (args.chi2 = PyNone \/ args.n.n = 0) => ret = Ok(PyNone)
        /\ (MinDim(args.shape) # 0 /\ args.chi2 # PyNone /\ args.n.n # 0) =>
              IsCramersV(ret, args.chi2.v, args.n.n, MinDim(args.shape))

\* C9: Safe Encoder round trip.  Decoding what NaNEncoder emitted yields the
\* absent marker at every position that held NaN or +-Infinity and the
\* original value, key and order everywhere else; no chunk emitted is a
\* non-finite numeric literal.
C9_RoundTrip ==
    /\ pc \in {"encoded", "decoded"} =>
          \A i \in 1..Len(wire) : wire[i].t \notin NonFiniteLiterals
    /\ pc = "decoded" =>
          /\ ret = Nulled(args)
          /\ ~HasNonFinite(ret)

\* a decoded record that held a non-finite value inside a nested list
C9_Witness ==
    /\ pc = "decoded"
    /\ args.t = "dict"
    /\ \E i \in 1..Len(args.v) :
          /\ args.v[i][2].t = "list"
          /\ \E j \in 1..Len(args.v[i][2].v) : IsNonFiniteFloat(args.v[i][2].v[j])
    /\ \E i \in 1..Len(args.v) : args.v[i][2] = PyFloat(Fin(3, 2))
    /\ ret # args

\* p < 0.05 for a p-value n/d: finite, and 20 * n < d
BelowThreshold(p) == p.k = "fin" /\ 20 * p.n < Abs(p.d)

\* C10: get_interpretation returns the significant template with the positive
\* conclusion exactly when p_value < 0.05 (0.05 itself is not significant),
\* otherwise the not-significant template with the negative conclusion, the
\* notes appended verbatim in both; so the record's interpretation says
\* significant exactly when its pValue is present and below 0.05.
C10_Interpretation ==
    /\ pc \in {"interpreted", "assembled"} =>
          /\ ret.t = "str"
          /\ ret.v[1] \in {SigTemplate, NotSigTemplate}
          /\ ret.v[1] = SigTemplate <=> BelowThreshold(args.p)
          /\ ret.v = <<ret.v[1]>>
                     \o (IF ret.v[1] = SigTemplate THEN args.positive ELSE args.negative)
                     \o <<" ", args.notes>>
    /\ pc = "assembled" =>
          (Field(result.value, "interpretation").v[1] = SigTemplate
              <=> /\ Field(result.value, "pValue") # PyNone
                  /\ BelowThreshold(Field(result.value, "pValue").v))

\* the record built for p = 0.05 exactly, with a note: not significant
C10_Witness ==
    /\ pc = "assembled"
    /\ args.p = Fin(5, 100)
    /\ args.notes = LowCellNote
    /\ Field(result.value, "pValue") = PyFloat(Fin(1, 20))
    /\ Field(result.value, "interpretation").v[1] = NotSigTemplate

===========================================================================
